---- MODULE Spec2Model ----
(***************************************************************************)
(* Model of kaonavi_mcp_server/server.py: the MCP tool dispatcher          *)
(* (call_tool), the four query operations (describe_member_fields,         *)
(* describe_sheet_fields, get_members, get_sheets), get_sheet_ids, the     *)
(* module-level GetSheetsApi object they share, and the cache-or-fetch     *)
(* resolution inside ApiExecutor.execute that they await.                  *)
(*                                                                         *)
(* Requests are handled concurrently by the MCP server: each request runs  *)
(* as an asyncio task and may be suspended at every await that performs    *)
(* I/O.  A request is modelled as a slot r in Reqs whose position pc[r]    *)
(* moves  idle -> exec -> (fetching ->) done -> idle.                      *)
(*                                                                         *)
(* server.py holds no cache, no lock and no flattener of its own: these    *)
(* live behind `await executor.execute(no_cache=...)` and `flatten()`.     *)
(* What the model takes from server.py is that execute() is given the      *)
(* bypass flag and nothing else, so the sheet it fetches is the one        *)
(* selected on the shared GetSheetsApi object when execute() builds its    *)
(* request, and that nothing in server.py serialises two operations.       *)
(* execute() is modelled as: suspend (access token), then look the source  *)
(* key up in the cache unless bypassed, on a miss suspend on the upstream  *)
(* fetch and store what it returned.  The cache holds what execute()       *)
(* returns, the raw batch: flatten() runs after execute() in every call.   *)
(***************************************************************************)
EXTENDS Naturals, Sequences, FiniteSets

(***************************************************************************)
(* Bounds                                                                  *)
(***************************************************************************)
MaxColLen == 6

(* the request tasks the server runs concurrently *)
Reqs == {"r1", "r2"}

(***************************************************************************)
(* Values of table cells                                                   *)
(***************************************************************************)
Null == <<"null">>
I(n) == <<"int", n>>
S(s) == <<"str", s>>

None == "None"
Absent == "absent"
NoSheetId == 0

(***************************************************************************)
(* Tool names (KaonaviTools) and their arguments                           *)
(***************************************************************************)
DESCRIBE_MEMBER_FIELDS == "describe_member_fields"
DESCRIBE_SHEET_FIELDS == "describe_sheet_fields"
GET_MEMBERS == "get_members"
GET_SHEETS == "get_sheets"
GET_SHEET_IDS == "get_sheet_ids"
UNKNOWN_TOOL == "no_such_tool"

KaonaviTools ==
  {DESCRIBE_MEMBER_FIELDS, DESCRIBE_SHEET_FIELDS, GET_MEMBERS, GET_SHEETS, GET_SHEET_IDS}

SheetTools == {DESCRIBE_SHEET_FIELDS, GET_SHEETS}
ListTools == {GET_MEMBERS, GET_SHEETS}
DescribeTools == {DESCRIBE_MEMBER_FIELDS, DESCRIBE_SHEET_FIELDS}
QueryTools == SheetTools \cup {DESCRIBE_MEMBER_FIELDS, GET_MEMBERS}

SheetIds == {1, 2}

MalformedText == "age >="
AgeText == "age >= 30"
SalaryText == "salary > 0"
QueryTexts == {"", MalformedText, AgeText, SalaryText}

(***************************************************************************)
(* Upstream data: the raw nested record batch of each source.  A raw       *)
(* record is an ordered sequence of <<field, value>> pairs.                *)
(***************************************************************************)
MembersKey == <<"members", 0>>
NoKey == <<"none", 0>>
SheetKey(id) == <<"sheet", id>>
Keys == {MembersKey} \cup {SheetKey(id) : id \in SheetIds}


Batch(records) == [kind |-> "batch", records |-> records]
Garbage == [kind |-> "garbage", records |-> <<>>]
NoResult == [kind |-> "none", records |-> <<>>]

Upstream(key) ==
  IF key = MembersKey
    THEN Batch(<< << <<"name", S("a")>>, <<"age", I(31)>> >>,
                  << <<"name", S("b")>> >>,
                  << <<"name", S("c")>>, <<"age", I(25)>> >> >>)
  ELSE IF key = SheetKey(1)
    THEN Batch(<< << <<"dept", S("Sales")>>, <<"age", I(40)>> >>,
                  << <<"dept", S("Eng")>> >> >>)
  ELSE Garbage

(***************************************************************************)
(* Flattener: raw batch -> Table [columns, rows]                           *)
(***************************************************************************)
RECURSIVE AddFields(_, _)
AddFields(cols, rec) ==
  IF rec = <<>> THEN cols
  ELSE LET f == Head(rec)[1]
       IN AddFields(IF \E i \in DOMAIN cols : cols[i] = f THEN cols ELSE Append(cols, f),
                    Tail(rec))

RECURSIVE UnionColumns(_, _)
UnionColumns(cols, batch) ==
  IF batch = <<>> THEN cols
  ELSE UnionColumns(AddFields(cols, Head(batch)), Tail(batch))

FieldOf(rec, f) ==
  IF \E i \in DOMAIN rec : rec[i][1] = f
    THEN rec[CHOOSE i \in DOMAIN rec : rec[i][1] = f][2]
    ELSE Null

Flatten(result) ==
  LET batch == result.records
      cols == UnionColumns(<<>>, batch)
      names == {cols[i] : i \in DOMAIN cols}
  IN [columns |-> cols,
      rows |-> [i \in DOMAIN batch |-> [c \in names |-> FieldOf(batch[i], c)]]]

ColumnSet(df) == {df.columns[i] : i \in DOMAIN df.columns}
Column(df, c) == [i \in DOMAIN df.rows |-> df.rows[i][c]]

(***************************************************************************)
(* Schema introspection (server.py 121-127, 139-145)                       *)
(***************************************************************************)
SampleLimit == 5

Digit(d) ==
  CASE d = 0 -> "0" [] d = 1 -> "1" [] d = 2 -> "2" [] d = 3 -> "3" [] d = 4 -> "4"
    [] d = 5 -> "5" [] d = 6 -> "6" [] d = 7 -> "7" [] d = 8 -> "8" [] OTHER -> "9"

RECURSIVE IntStr(_)
IntStr(n) == IF n < 10 THEN Digit(n) ELSE IntStr(n \div 10) \o Digit(n % 10)

NonNull(col) == {i \in DOMAIN col : col[i] # Null}

Dtype(col) ==
  IF \A i \in DOMAIN col : col[i] = Null THEN "object"
  ELSE IF \A i \in NonNull(col) : col[i][1] = "int"
    THEN (IF NonNull(col) = DOMAIN col THEN "int64" ELSE "float64")
  ELSE "object"

DropNa(col) == SelectSeq(col, LAMBDA v : v # Null)

Str(dtype, v) ==
  IF v[1] = "str" THEN v[2]
  ELSE IF dtype = "float64" THEN IntStr(v[2]) \o ".0"
  ELSE IntStr(v[2])

AsTypeStr(dtype, col) == [i \in DOMAIN col |-> Str(dtype, col[i])]

RECURSIVE UniqueFrom(_, _)
UniqueFrom(seen, rest) ==
  IF rest = <<>> THEN seen
  ELSE UniqueFrom(IF \E i \in DOMAIN seen : seen[i] = Head(rest)
                    THEN seen ELSE Append(seen, Head(rest)),
                  Tail(rest))

Unique(seq) == UniqueFrom(<<>>, seq)

Slice(seq, n) == SubSeq(seq, 1, IF Len(seq) < n THEN Len(seq) ELSE n)

SampleValuesSliceFirst(col) ==
  Unique(Slice(AsTypeStr(Dtype(col), DropNa(col)), SampleLimit))

SampleValues(col) ==
  Slice(Unique(AsTypeStr(Dtype(col), DropNa(col))), SampleLimit)

FieldInfo(df) ==
  [c \in ColumnSet(df) |->
     [dtype |-> Dtype(Column(df, c)), sample_values |-> SampleValues(Column(df, c))]]

(***************************************************************************)
(* df.query(text): the expression evaluator the list operations call       *)
(***************************************************************************)
Parse(text) ==
  CASE text = AgeText -> [ok |-> TRUE, col |-> "age", op |-> ">=", lit |-> 30]
    [] text = SalaryText -> [ok |-> TRUE, col |-> "salary", op |-> ">", lit |-> 0]
    [] OTHER -> [ok |-> FALSE, col |-> "", op |-> "", lit |-> 0]

Holds(row, ast) ==
  LET v == row[ast.col]
  IN /\ v # Null
     /\ v[1] = "int"
     /\ IF ast.op = ">=" THEN v[2] >= ast.lit ELSE v[2] > ast.lit

DfQuery(df, text) ==
  LET ast == Parse(text)
  IN IF ~ast.ok THEN [kind |-> "raise", exc |-> "SyntaxError", df |-> df]
     ELSE IF ast.col \notin ColumnSet(df)
       THEN [kind |-> "raise", exc |-> "UndefinedVariableError", df |-> df]
     ELSE [kind |-> "ok", exc |-> "",
           df |-> [columns |-> df.columns,
                   rows |-> SelectSeq(df.rows, LAMBDA row : Holds(row, ast))]]

(***************************************************************************)
(* Results of an operation                                                 *)
(***************************************************************************)
NoOutcome == [kind |-> "none", payload |-> ""]
Returned(kind, payload) == [kind |-> kind, payload |-> payload]
Raised(exc) == [kind |-> "raised", payload |-> exc]

ErrorPayload(exc) == Returned("error", <<"Invalid query", exc>>)

Truthy(query) == query # None /\ query # ""

(* if query: try: df = df.query(query) except Exception as e: return {"error": ...} *)
ApplyQueryUncaught(df, query) ==
  IF Truthy(query)
    THEN LET q == DfQuery(df, query)
         IN IF q.kind = "raise" THEN Raised(q.exc)
            ELSE Returned("rows", q.df.rows)
    ELSE Returned("rows", df.rows)

ApplyQueryIgnoreUnknown(df, query) ==
  IF Truthy(query)
    THEN LET q == DfQuery(df, query)
         IN IF q.kind = "raise"
              THEN (IF q.exc = "UndefinedVariableError" THEN Returned("rows", <<>>)
                    ELSE ErrorPayload(q.exc))
            ELSE Returned("rows", q.df.rows)
    ELSE Returned("rows", df.rows)

ApplyQueryAlways(df, query) ==
  LET q == DfQuery(df, IF query = None THEN AgeText ELSE query)
  IN IF q.kind = "raise" THEN ErrorPayload(q.exc)
     ELSE Returned("rows", q.df.rows)

ApplyQuery(df, query) ==
  IF Truthy(query)
    THEN LET q == DfQuery(df, query)
         IN IF q.kind = "raise" THEN ErrorPayload(q.exc)
            ELSE Returned("rows", q.df.rows)
    ELSE Returned("rows", df.rows)

(* an exception of execute() or flatten() is not caught by the operation *)
PropagateAsPayload(exc) == ErrorPayload(exc)

Propagate(exc) == Raised(exc)

(* the part of an operation after `await ...execute()` has returned `result` *)
Complete(name, query, result) ==
  IF result = Garbage THEN Propagate("MalformedUpstreamData")
  ELSE LET df == Flatten(result)
       IN IF name \in DescribeTools THEN Returned("info", FieldInfo(df))
          ELSE ApplyQuery(df, query)

(* arguments.get("no_cache", False) *)
DefaultNoCacheTrue(arguments) ==
  IF arguments.no_cache = Absent THEN TRUE ELSE arguments.no_cache = "True"

DefaultNoCache(arguments) ==
  IF arguments.no_cache = Absent THEN FALSE ELSE arguments.no_cache = "True"

(* get_sheets_api.set_sheet_id(sheet_id), reached only past the None check *)
SetSheetIdUnchecked(name, arguments, selected) ==
  IF name \in SheetTools THEN arguments.sheet_id ELSE selected

SetSheetId(name, arguments, selected) ==
  IF name \in SheetTools /\ arguments.sheet_id # NoSheetId
    THEN arguments.sheet_id ELSE selected

(***************************************************************************)
(* State                                                                   *)
(***************************************************************************)
VARIABLES
  pc,        \* position of each request
  req,       \* [name, arguments] of each request
  no_cache,  \* the no_cache parameter of the running operation
  src,       \* the source key execute() resolved for the request
  origin,    \* where `result` came from: "none", "cache" or "upstream"
  nfetch,    \* upstream fetches issued on behalf of the request
  result,    \* the raw batch execute() returned
  outcome,   \* what the request returned or raised
  sheet_id,  \* get_sheets_api's selected sheet id (shared by all requests)
  cache,     \* the executors' cache, one entry per source key
  column,    \* a table column under introspection
  samples    \* its sample values

vars == <<pc, req, no_cache, src, origin, nfetch, result, outcome, sheet_id, cache,
          column, samples>>

reqVars == <<pc, req, no_cache, src, origin, nfetch, result, outcome>>
sampleVars == <<column, samples>>

NoReq == [name |-> "", arguments |-> [sheet_id |-> NoSheetId, query |-> None, no_cache |-> Absent]]
NoEntry == [data |-> NoResult, fresh |-> FALSE]

Arguments(name) ==
  [sheet_id : IF name \in SheetTools THEN SheetIds \cup {NoSheetId} ELSE {NoSheetId},
   query : IF name \in ListTools THEN QueryTexts \cup {None} ELSE {None},
   no_cache : IF name \in QueryTools THEN {Absent, "True"} ELSE {Absent}]

Init ==
  /\ pc = [r \in Reqs |-> "idle"]
  /\ req = [r \in Reqs |-> NoReq]
  /\ no_cache = [r \in Reqs |-> FALSE]
  /\ src = [r \in Reqs |-> NoKey]
  /\ origin = [r \in Reqs |-> "none"]
  /\ nfetch = [r \in Reqs |-> 0]
  /\ result = [r \in Reqs |-> NoResult]
  /\ outcome = [r \in Reqs |-> NoOutcome]
  /\ sheet_id = NoSheetId
  /\ cache = [k \in Keys |-> NoEntry]
  /\ column = <<>>
  /\ samples = <<>>

Finish(r, out) ==
  /\ pc' = [pc EXCEPT ![r] = "done"]
  /\ outcome' = [outcome EXCEPT ![r] = out]

(***************************************************************************)
(* call_tool                                                               *)
(***************************************************************************)
Accept(r, name, arguments) ==
  /\ pc[r] = "idle"
  /\ req' = [req EXCEPT ![r] = [name |-> name, arguments |-> arguments]]

(* case _: raise ValueError *)
CallUnknownTool(r) ==
  \E arguments \in Arguments(UNKNOWN_TOOL) :
    /\ Accept(r, UNKNOWN_TOOL, arguments)
    /\ Finish(r, Raised("ValueError"))
    /\ sheet_id' = SetSheetId(UNKNOWN_TOOL, arguments, sheet_id)
    /\ UNCHANGED <<no_cache, src, origin, nfetch, result, cache, sampleVars>>

(* case GET_SHEET_IDS: load_sheets_config() reads a file; its failure is returned as text *)
CallGetSheetIds(r) ==
  \E arguments \in Arguments(GET_SHEET_IDS), configOk \in BOOLEAN :
    /\ Accept(r, GET_SHEET_IDS, arguments)
    /\ Finish(r, IF configOk THEN Returned("sheet_ids", "sheets")
                 ELSE Returned("error_text", "[ERROR]"))
    /\ sheet_id' = SetSheetId(GET_SHEET_IDS, arguments, sheet_id)
    /\ UNCHANGED <<no_cache, src, origin, nfetch, result, cache, sampleVars>>

(* sheet_id = arguments.get("sheet_id"); if sheet_id is None: raise ValueError *)
CallWithoutSheetId(r) ==
  \E name \in SheetTools : \E arguments \in Arguments(name) :
    /\ arguments.sheet_id = NoSheetId
    /\ Accept(r, name, arguments)
    /\ Finish(r, Raised("ValueError"))
    /\ sheet_id' = SetSheetId(name, arguments, sheet_id)
    /\ UNCHANGED <<no_cache, src, origin, nfetch, result, cache, sampleVars>>

(* the operation starts and is suspended inside `await ...execute(no_cache=no_cache)` *)
CallQueryTool(r) ==
  \E name \in QueryTools : \E arguments \in Arguments(name) :
    /\ name \in SheetTools => arguments.sheet_id # NoSheetId
    /\ Accept(r, name, arguments)
    /\ no_cache' = [no_cache EXCEPT ![r] = DefaultNoCache(arguments)]
    /\ sheet_id' = SetSheetId(name, arguments, sheet_id)
    /\ pc' = [pc EXCEPT ![r] = "exec"]
    /\ UNCHANGED <<src, origin, nfetch, result, outcome, cache, sampleVars>>

(***************************************************************************)
(* ApiExecutor.execute(no_cache)                                           *)
(***************************************************************************)
(* execute() is not passed the sheet id: it takes it from the api object *)
SourceKey(name, selected) ==
  IF name \in SheetTools THEN SheetKey(selected) ELSE MembersKey

CacheGet(key) == IF cache[key].fresh THEN cache[key].data ELSE NoResult

ExecuteHit(r) ==
  LET key == SourceKey(req[r].name, sheet_id)
  IN /\ pc[r] = "exec"
     /\ ~no_cache[r]
     /\ CacheGet(key) # NoResult
     /\ src' = [src EXCEPT ![r] = key]
     /\ origin' = [origin EXCEPT ![r] = "cache"]
     /\ result' = [result EXCEPT ![r] = CacheGet(key)]
     /\ Finish(r, Complete(req[r].name, req[r].arguments.query, CacheGet(key)))
     /\ UNCHANGED <<req, no_cache, nfetch, sheet_id, cache, sampleVars>>

ExecuteMiss(r) ==
  LET key == SourceKey(req[r].name, sheet_id)
  IN /\ pc[r] = "exec"
     /\ no_cache[r] \/ CacheGet(key) = NoResult
     /\ src' = [src EXCEPT ![r] = key]
     /\ nfetch' = [nfetch EXCEPT ![r] = @ + 1]
     /\ pc' = [pc EXCEPT ![r] = "fetching"]
     /\ UNCHANGED <<req, no_cache, origin, result, outcome, sheet_id, cache, sampleVars>>

FetchReturn(r) ==
  LET data == Upstream(src[r])
  IN
    /\ pc[r] = "fetching"
    /\ cache' = [cache EXCEPT ![src[r]] = [data |-> data, fresh |-> TRUE]]
    /\ origin' = [origin EXCEPT ![r] = "upstream"]
    /\ result' = [result EXCEPT ![r] = data]
    /\ Finish(r, Complete(req[r].name, req[r].arguments.query, data))
    /\ UNCHANGED <<req, no_cache, src, nfetch, sheet_id, sampleVars>>

FetchFail(r) ==
  /\ pc[r] = "fetching"
  /\ Finish(r, Propagate("UpstreamUnavailable"))
  /\ UNCHANGED <<req, no_cache, src, origin, nfetch, result, sheet_id, cache, sampleVars>>

(* now - entry.timestamp reaches ttl: the entry is never returned again, *)
(* which is recorded here as the key having no entry                     *)
Expire(key) ==
  /\ cache[key].fresh
  /\ cache' = [cache EXCEPT ![key] = NoEntry]
  /\ UNCHANGED <<reqVars, sheet_id, sampleVars>>

(* the response (or the failure) has been delivered; the slot takes the next request *)
Respond(r) ==
  /\ pc[r] = "done"
  /\ pc' = [pc EXCEPT ![r] = "idle"]
  /\ req' = [req EXCEPT ![r] = NoReq]
  /\ no_cache' = [no_cache EXCEPT ![r] = FALSE]
  /\ src' = [src EXCEPT ![r] = NoKey]
  /\ origin' = [origin EXCEPT ![r] = "none"]
  /\ nfetch' = [nfetch EXCEPT ![r] = 0]
  /\ result' = [result EXCEPT ![r] = NoResult]
  /\ outcome' = [outcome EXCEPT ![r] = NoOutcome]
  /\ UNCHANGED <<sheet_id, cache, sampleVars>>

Next ==
  \/ \E r \in Reqs : CallUnknownTool(r)
  \/ \E r \in Reqs : CallGetSheetIds(r)
  \/ \E r \in Reqs : CallWithoutSheetId(r)
  \/ \E r \in Reqs : CallQueryTool(r)
  \/ \E r \in Reqs : ExecuteHit(r)
  \/ \E r \in Reqs : ExecuteMiss(r)
  \/ \E r \in Reqs : FetchReturn(r)
  \/ \E r \in Reqs : FetchFail(r)
  \/ \E r \in Reqs : Respond(r)
  \/ \E key \in Keys : Expire(key)

Spec == Init /\ [][Next]_vars

(***************************************************************************)
(* Schema introspection of one column, for columns of every content:       *)
(* the upstream batch gains a row and the column is described again.        *)
(***************************************************************************)
CellValues == {Null, I(1), S("1"), S("2"), S("3"), S("4"), S("5"), S("6")}

DescribeColumn(v) ==
  /\ Len(column) < MaxColLen
  /\ column' = Append(column, v)
  /\ samples' = SampleValues(column')
  /\ UNCHANGED <<reqVars, sheet_id, cache>>

NextSample == \E v \in CellValues : DescribeColumn(v)

SpecSample == Init /\ [][NextSample]_vars

(***************************************************************************)
(* Properties                                                              *)
(***************************************************************************)
Accepted(r) ==
  /\ req[r].name \in QueryTools
  /\ req[r].name \in SheetTools => req[r].arguments.sheet_id # NoSheetId

Rejected(request) ==
  \/ request.name = UNKNOWN_TOOL
  \/ request.name \in SheetTools /\ request.arguments.sheet_id = NoSheetId

Resolved(r) == pc[r] = "done" /\ Accepted(r) /\ result[r].kind = "batch"

Malformed(query) == Truthy(query) /\ ~Parse(query).ok

(* C1: a get_members or get_sheets call whose non-empty predicate cannot be  *)
(* parsed returns the {"error": ...} payload; it does not raise.             *)
C1_MalformedPredicateReturnsError ==
  \A r \in Reqs :
    (Resolved(r) /\ req[r].name \in ListTools /\ Malformed(req[r].arguments.query))
      => /\ outcome[r].kind = "error"
         /\ outcome[r].payload = <<"Invalid query", "SyntaxError">>

C1_Witness ==
  \E r, q \in Reqs :
    /\ Resolved(r) /\ req[r].name = GET_MEMBERS /\ Malformed(req[r].arguments.query)
    /\ outcome[r].kind = "error"
    /\ Resolved(q) /\ req[q].name = GET_SHEETS /\ Malformed(req[q].arguments.query)
    /\ outcome[q].kind = "error"

(* C2: a sheet-scoped call fetches with the sheet id it was given, whatever  *)
(* other sheet-scoped calls are in flight.                                   *)
C2_SheetCallUsesItsOwnSheetId ==
  \A r \in Reqs :
    (Accepted(r) /\ req[r].name \in SheetTools /\ src[r] # NoKey)
      => src[r] = SheetKey(req[r].arguments.sheet_id)

(* C3: requests for the same source key that find the cache cold share one   *)
(* upstream fetch: two such fetches are never in flight together.            *)
C3_SingleFlight ==
  \A r, q \in Reqs :
    (r # q /\ pc[r] = "fetching" /\ pc[q] = "fetching" /\ ~no_cache[r] /\ ~no_cache[q])
      => src[r] # src[q]

(* C4: a call changes no shared state other than cache entries; in           *)
(* particular the sheet id selected on the shared api object never changes.  *)
C4_OnlyCacheChanges == [][sheet_id' = sheet_id]_vars

(* C5: a failure of the upstream fetch or of flattening is raised to the     *)
(* caller; the {"error": ...} payload is produced only for a predicate that  *)
(* fails on a resolved table; an operation issues at most one fetch.         *)
FetchFailed(r) == pc[r] = "done" /\ Accepted(r) /\ src[r] # NoKey /\ result[r].kind = "none"
FlattenFailed(r) == pc[r] = "done" /\ Accepted(r) /\ result[r].kind = "garbage"

C5_FailuresPropagate ==
  \A r \in Reqs :
    /\ FetchFailed(r) => outcome[r] = Raised("UpstreamUnavailable")
    /\ FlattenFailed(r) => outcome[r] = Raised("MalformedUpstreamData")
    /\ outcome[r].kind = "error"
         => /\ Resolved(r)
            /\ req[r].name \in ListTools
            /\ Truthy(req[r].arguments.query)
            /\ DfQuery(Flatten(result[r]), req[r].arguments.query).kind = "raise"
    /\ nfetch[r] <= 1

C5_Witness ==
  \E r, q \in Reqs :
    /\ FetchFailed(r) /\ outcome[r].kind = "raised"
    /\ FlattenFailed(q) /\ outcome[q].kind = "raised"

(* C6: a list call whose predicate names a column the resolved table does    *)
(* not have ends in an error outcome, never in a list of rows.               *)
UnknownColumn(r) ==
  /\ Truthy(req[r].arguments.query)
  /\ Parse(req[r].arguments.query).ok
  /\ \A i \in DOMAIN result[r].records :
       \A j \in DOMAIN result[r].records[i] :
         result[r].records[i][j][1] # Parse(req[r].arguments.query).col

C6_UnknownColumnIsAnError ==
  \A r \in Reqs :
    (Resolved(r) /\ req[r].name \in ListTools /\ UnknownColumn(r))
      => /\ outcome[r].kind = "error"
         /\ outcome[r].payload = <<"Invalid query", "UndefinedVariableError">>

C6_Witness ==
  \E r, q \in Reqs :
    /\ Resolved(r) /\ req[r].name = GET_MEMBERS /\ UnknownColumn(r)
    /\ outcome[r].kind = "error"
    /\ Resolved(q) /\ req[q].name = GET_SHEETS /\ UnknownColumn(q)
    /\ outcome[q].kind = "error"

(* C7: the bypass value an operation runs with is the one its request        *)
(* carried (false when omitted); a bypassed request fetches and is not       *)
(* answered from the cache, its fetch refreshes the cache, and a later       *)
(* request without the flag that finds a fresh entry is answered from it.    *)
BypassIsTheRequests ==
  \A r \in Reqs :
    /\ (Accepted(r) /\ pc[r] # "idle")
         => no_cache[r] = (req[r].arguments.no_cache = "True")
    /\ (Accepted(r) /\ pc[r] = "done" /\ no_cache[r])
         => origin[r] # "cache" /\ nfetch[r] = 1

C7_BypassIsPerRequest ==
  [][/\ BypassIsTheRequests'
     /\ \A r \in Reqs :
          /\ (pc[r] = "fetching" /\ result'[r].kind # "none") => cache'[src[r]].fresh
          /\ (/\ pc[r] = "exec" /\ pc'[r] # "exec"
              /\ req[r].arguments.no_cache = Absent
              /\ cache[SourceKey(req[r].name, sheet_id)].fresh)
               => origin'[r] = "cache" /\ nfetch'[r] = 0]_vars

C7_Witness ==
  \E r, q \in Reqs :
    /\ pc[r] = "done" /\ req[r].arguments.no_cache = "True" /\ origin[r] = "upstream"
    /\ pc[q] = "done" /\ Accepted(q) /\ req[q].arguments.no_cache = Absent
    /\ origin[q] = "cache" /\ src[q] = src[r]

(* C8: a list call without a predicate returns one record per record of the *)
(* upstream batch, in the batch's order, each carrying that record's values. *)
C8_NoPredicateReturnsAllRows ==
  \A r \in Reqs :
    (Resolved(r) /\ req[r].name \in ListTools /\ req[r].arguments.query = None)
      => /\ outcome[r].kind = "rows"
         /\ Len(outcome[r].payload) = Len(result[r].records)
         /\ \A i \in DOMAIN result[r].records :
              \A j \in DOMAIN result[r].records[i] :
                outcome[r].payload[i][result[r].records[i][j][1]]
                  = result[r].records[i][j][2]

C8_Witness ==
  \E r, q \in Reqs :
    /\ Resolved(r) /\ req[r].name = GET_MEMBERS /\ req[r].arguments.query = None
    /\ Len(outcome[r].payload) = 3
    /\ Resolved(q) /\ req[q].name = GET_SHEETS /\ req[q].arguments.query = None
    /\ Len(outcome[q].payload) = 2

(* C9: the sample values of a column are the first (at most 5) distinct      *)
(* string renderings of its non-null values, in first-occurrence order,      *)
(* without duplicates; an all-null column has none.                          *)
Renderings(col) ==
  LET dtype == Dtype(col)
  IN [i \in NonNull(col) |-> Str(dtype, col[i])]

C9_SampleValues ==
  LET str == Renderings(column)
      rendered == {str[i] : i \in DOMAIN str}
      firstAt == [s \in rendered |->
                    CHOOSE i \in DOMAIN str :
                      str[i] = s /\ \A j \in DOMAIN str : str[j] = s => i <= j]
  IN /\ \A i \in DOMAIN samples : samples[i] \in rendered
     /\ \A i, j \in DOMAIN samples : i < j => firstAt[samples[i]] < firstAt[samples[j]]
     /\ \A s \in rendered :
          (\E i \in DOMAIN samples : firstAt[s] <= firstAt[samples[i]])
            => \E i \in DOMAIN samples : samples[i] = s
     /\ Len(samples) = IF Cardinality(rendered) < SampleLimit
                         THEN Cardinality(rendered) ELSE SampleLimit

C9_Witness ==
  LET str == Renderings(column)
  IN /\ Cardinality({str[i] : i \in DOMAIN str}) > SampleLimit
     /\ Len(samples) = SampleLimit
     /\ \A i \in DOMAIN samples : samples[i] = str[i]

(* C10: a sheet-scoped request without sheet_id, and a request naming an     *)
(* unknown tool, raise ValueError at once: nothing is fetched, and the       *)
(* selected sheet id and every other variable keep their values.             *)
C10_RejectedBeforeAnythingElse ==
  [][\A r \in Reqs :
       (pc[r] = "idle" /\ pc'[r] # "idle" /\ Rejected(req'[r]))
         => /\ pc'[r] = "done"
            /\ outcome'[r] = Raised("ValueError")
            /\ nfetch'[r] = 0 /\ src'[r] = NoKey
            /\ sheet_id' = sheet_id
            /\ cache' = cache
            /\ \A q \in Reqs \ {r} : pc'[q] = pc[q] /\ nfetch'[q] = nfetch[q]]_vars

C10_Witness ==
  \E r, q \in Reqs :
    /\ pc[r] = "done" /\ req[r].name \in SheetTools
    /\ req[r].arguments.sheet_id = NoSheetId
    /\ outcome[r] = Raised("ValueError")
    /\ pc[q] = "done" /\ req[q].name = UNKNOWN_TOOL
    /\ outcome[q] = Raised("ValueError")
    /\ sheet_id # NoSheetId

====
